---- MODULE Spec2Model ----
(***************************************************************************)
(* Proof-of-work difficulty: GetNextWorkRequired, CalculateNextWorkRequired *)
(* and CheckProofOfWork of src/src/pow.cpp.                                 *)
(*                                                                          *)
(* A 256-bit value (uint256, arith_uint256) is a sequence of WIDTH bytes,   *)
(* least significant byte first.  A 32-bit compact value nBits is the       *)
(* record [exp |-> nBits >> 24, mant |-> nBits & 0x00ffffff]; the mantissa  *)
(* field keeps the sign bit 0x00800000.                                     *)
(***************************************************************************)
EXTENDS Integers, Sequences, FiniteSets

\* ------------------------------------------------------------------------
\* 256-bit unsigned arithmetic (arith_uint256), byte limbs
\* ------------------------------------------------------------------------

\* bytes of an arith_uint256 / uint256
WIDTH == 32

\* 0x00800000, the sign bit of a compact value
SignBit == 8388608

\* 256^n for n in 0..3
Pow256(n) == IF n <= 0 THEN 1 ELSE IF n = 1 THEN 256 ELSE IF n = 2 THEN 65536 ELSE 16777216

Zero256 == [i \in 1..WIDTH |-> 0]

\* a small number as a 256-bit value
FromInt(n) == [i \in 1..WIDTH |-> IF i <= 4 THEN (n \div Pow256(i - 1)) % 256 ELSE 0]

\* uint256 -> arith_uint256: the little-endian bytes are read into
\* little-endian limbs, so byte i of the blob is byte i of the number
UintToArith256(u) == [i \in 1..WIDTH |-> u[i]]

\* base_uint::CompareTo, from the most significant limb down: -1, 0 or 1
RECURSIVE CompareTo(_, _, _)
CompareTo(a, b, i) ==
    IF i = 0 THEN 0
    ELSE IF a[i] < b[i] THEN -1
    ELSE IF a[i] > b[i] THEN 1
    ELSE CompareTo(a, b, i - 1)

\* operator> on values of equal width
Gt(a, b) == CompareTo(a, b, Len(a)) = 1

\* base_uint::operator*=(uint32_t): limb by limb with carry; the carry out
\* of the top limb is dropped, so the product is taken modulo 2^(8*Len(a))
RECURSIVE MulBytes(_, _, _, _)
MulBytes(a, b32, i, carry) ==
    IF i > Len(a) THEN << >>
    ELSE LET n == a[i] * b32 + carry
         IN  <<n % 256>> \o MulBytes(a, b32, i + 1, n \div 256)

MulSmall(a, b32) == MulBytes(a, b32, 1, 0)

\* base_uint::operator/=: the floor of a / d, by long division
RECURSIVE DivBytes(_, _, _, _)
DivBytes(a, d, i, rem) ==
    IF i = 0 THEN << >>
    ELSE LET cur == rem * 256 + a[i]
         IN  DivBytes(a, d, i - 1, cur % d) \o <<cur \div d>>

DivSmall(a, d) == DivBytes(a, d, Len(a), 0)

\* (bits() + 7) / 8: the number of significant bytes
RECURSIVE NumBytes(_, _)
NumBytes(a, i) == IF i = 0 THEN 0 ELSE IF a[i] # 0 THEN i ELSE NumBytes(a, i - 1)

\* byte i of a, 0 outside the value
ByteAt(a, i) == IF i \in 1..Len(a) THEN a[i] ELSE 0

\* ------------------------------------------------------------------------
\* Compact encoding
\* ------------------------------------------------------------------------

Compact(e, m) == [exp |-> e, mant |-> m]

\* arith_uint256::SetCompact: magnitude, sign flag and overflow flag
SetCompact(nCompact) ==
    LET nSize == nCompact.exp
        nMant == nCompact.mant % SignBit
        nWord == IF nSize <= 3 THEN nMant \div Pow256(3 - nSize) ELSE nMant
        shift == IF nSize <= 3 THEN 0 ELSE nSize - 3
    IN  [target    |-> [i \in 1..WIDTH |->
                          IF i - 1 - shift \in 0..2
                          THEN (nWord \div Pow256(i - 1 - shift)) % 256
                          ELSE 0],
         fNegative |-> nCompact.mant >= SignBit,
         fOverflow |-> nWord # 0 /\ (\/ nSize > 34
                                     \/ (nWord > 255 /\ nSize > 33)
                                     \/ (nWord > 65535 /\ nSize > 32))]

\* arith_uint256::GetCompact(false)
GetCompact(a) ==
    LET nSize == NumBytes(a, Len(a))
        nWord == IF nSize <= 3
                 THEN (ByteAt(a, 1) + 256 * ByteAt(a, 2) + 65536 * ByteAt(a, 3))
                          * Pow256(3 - nSize)
                 ELSE ByteAt(a, nSize - 2) + 256 * ByteAt(a, nSize - 1)
                          + 65536 * ByteAt(a, nSize)
    IN  IF nWord >= SignBit
        THEN Compact(nSize + 1, nWord \div 256)
        ELSE Compact(nSize, nWord)

\* ------------------------------------------------------------------------
\* Machine integers
\* ------------------------------------------------------------------------

\* n modulo 2^64 as a signed value: what a signed 64-bit operation leaves
\* when its exact result n does not fit
Wrap64(n) ==
    LET m == n % (65536 * 65536 * 65536 * 65536)
    IN  IF ((m \div 65536) \div 65536) \div 65536 >= 32768
        THEN m - 65536 * 65536 * 65536 * 65536
        ELSE m

\* the results of an int64_t operation that overflows.  The overflow is
\* undefined behaviour; the builds of this code (g++, -O0 and -O2) wrap
\* modulo 2^64, and that is the only outcome they produce
OverflowOutcomes(n) == {Wrap64(n)}

\* the int64_t result of an operation whose exact result is n
Int64(n) ==
    IF ((n \div 65536) \div 65536) \div 65536 \in -32768..32767
    THEN n
    ELSE CHOOSE v \in OverflowOutcomes(n) : TRUE

\* the int result of an operation or conversion whose exact value is n: the
\* low 32 bits as a signed value
Int32(n) ==
    IF n \div 65536 \in -32768..32767
    THEN n
    ELSE LET m == (n % 65536) + 65536 * ((n \div 65536) % 65536)
         IN  IF m \div 65536 >= 32768 THEN m - 65536 * 65536 ELSE m

\* int64_t division and remainder, which truncate toward zero
CDiv(a, b) ==
    IF (a >= 0) = (b >= 0)
    THEN (IF a >= 0 THEN a ELSE -a) \div (IF b >= 0 THEN b ELSE -b)
    ELSE -((IF a >= 0 THEN a ELSE -a) \div (IF b >= 0 THEN b ELSE -b))

CRem(a, b) == a - b * CDiv(a, b)

\* ------------------------------------------------------------------------
\* Consensus parameters and chain index
\* ------------------------------------------------------------------------

\* Consensus::Params::DifficultyAdjustmentInterval
DifficultyAdjustmentInterval(p) == CDiv(p.nPowTargetTimespan, p.nPowTargetSpacing)

\* CBlockIndex::GetAncestor on a chain held as a sequence, block i at height
\* i - 1: the index of the ancestor of block i at the height, 0 for nullptr
GetAncestor(ch, i, height) ==
    IF height > ch[i].nHeight \/ height < 0 THEN 0 ELSE height + 1

\* CBlockIndex::pprev: the index of the parent, 0 for nullptr
pprev(ch, i) == i - 1

\* ------------------------------------------------------------------------
\* CalculateNextWorkRequired
\* ------------------------------------------------------------------------

\* int64_t -> uint32_t, the operand of base_uint::operator*=(uint32_t):
\* n modulo 2^32, taken in two 16-bit halves
ToUint32(n) ==
    IF n \div 65536 \in 0..32767
    THEN n
    ELSE (n % 65536) + 65536 * ((n \div 65536) % 65536)

\* int64_t -> uint64_t, the operand of the base_uint(uint64_t) constructor
\* that operator/= receives: n modulo 2^64
ToUint64(n) == IF n >= 0 THEN n ELSE n + 65536 * 65536 * 65536 * 65536

\* nPowTargetTimespan/4 as int64_t division, which truncates toward zero
TimespanQuarter(p) == CDiv(p.nPowTargetTimespan, 4)

\* nPowTargetTimespan*4 as an int64_t product
TimespanTimesFour(p) == Int64(p.nPowTargetTimespan * 4)

\* pindexLast->GetBlockTime() - nFirstBlockTime as an int64_t difference
ActualTimespan(pindexLast, nFirstBlockTime) == Int64(pindexLast.nTime - nFirstBlockTime)

\* the limit adjustment step: the timespan clamped into
\* [nPowTargetTimespan/4, nPowTargetTimespan*4]
LimitAdjustmentStep(nActualTimespan, p) ==
    LET low == IF nActualTimespan < TimespanQuarter(p)
               THEN TimespanQuarter(p)
               ELSE nActualTimespan
    IN  IF low > TimespanTimesFour(p) THEN TimespanTimesFour(p) ELSE low

\* the retarget without the limit on the result
MutRetargetNoLimit(pindexLast, nFirstBlockTime, p) ==
    GetCompact(DivSmall(MulSmall(SetCompact(pindexLast.nBits).target,
                   ToUint32(LimitAdjustmentStep(ActualTimespan(pindexLast, nFirstBlockTime), p))),
                   ToUint64(p.nPowTargetTimespan)))

\* the retarget proper: old target times the clamped timespan converted to
\* uint32_t, divided by the target timespan, limited by powLimit, in
\* compact form
Retarget(pindexLast, nFirstBlockTime, p) ==
    LET nActualTimespan ==
            LimitAdjustmentStep(ActualTimespan(pindexLast, nFirstBlockTime), p)
        bnPowLimit == UintToArith256(p.powLimit)
        bnOld == SetCompact(pindexLast.nBits).target
        bnNew == DivSmall(MulSmall(bnOld, ToUint32(nActualTimespan)),
                          ToUint64(p.nPowTargetTimespan))
    IN  GetCompact(IF Gt(bnNew, bnPowLimit) THEN bnPowLimit ELSE bnNew)

\* the fPowNoRetargeting test inverted
MutCalculateInvertedFlag(pindexLast, nFirstBlockTime, p) ==
    IF ~p.fPowNoRetargeting THEN pindexLast.nBits
    ELSE Retarget(pindexLast, nFirstBlockTime, p)

CalculateNextWorkRequired(pindexLast, nFirstBlockTime, p) ==
    IF p.fPowNoRetargeting THEN pindexLast.nBits
    ELSE Retarget(pindexLast, nFirstBlockTime, p)

\* ------------------------------------------------------------------------
\* GetNextWorkRequired
\* ------------------------------------------------------------------------

Result(tip, path, nBits, steps, first) ==
    [op |-> "next", tip |-> tip, path |-> path, nBits |-> nBits,
     steps |-> steps, first |-> first]

\* the interval test on the height of the tip instead of the next height
MutIntervalTestOnTip(pindexLast, interval) == CRem(pindexLast.nHeight, interval) # 0

\* the candidate is not at an interval start: the bits are not recomputed
NotAtInterval(pindexLast, interval) == CRem(Int32(pindexLast.nHeight + 1), interval) # 0

\* the gap measured against the whole timespan instead of twice the spacing
MutGapOfTimespan(nTime, pindexLast, p) ==
    nTime > Int64(pindexLast.nTime + Int64(p.nPowTargetTimespan * 2))

\* the candidate comes more than twice the spacing after the tip
MinDifficultyGap(nTime, pindexLast, p) ==
    nTime > Int64(pindexLast.nTime + Int64(p.nPowTargetSpacing * 2))

\* the loop without the interval-start test in its condition
RECURSIVE MutWalkNoIntervalTest(_, _, _, _, _)
MutWalkNoIntervalTest(ch, i, nProofOfWorkLimit, interval, steps) ==
    IF pprev(ch, i) # 0 /\ ch[i].nBits = nProofOfWorkLimit
    THEN MutWalkNoIntervalTest(ch, pprev(ch, i), nProofOfWorkLimit, interval, steps + 1)
    ELSE [index |-> i, steps |-> steps]

\* the loop of the min-difficulty rule: from block i back to the last block
\* that is at an interval start, is the genesis block or has other bits than
\* the limit; steps counts the moves to the parent
RECURSIVE WalkBack(_, _, _, _, _)
WalkBack(ch, i, nProofOfWorkLimit, interval, steps) ==
    IF /\ pprev(ch, i) # 0
       /\ CRem(ch[i].nHeight, interval) # 0
       /\ ch[i].nBits = nProofOfWorkLimit
    THEN WalkBack(ch, pprev(ch, i), nProofOfWorkLimit, interval, steps + 1)
    ELSE [index |-> i, steps |-> steps]

\* the first block of the interval taken one block too early
MutFirstOneEarlier(pindexLast, interval) == Int32(Int64(pindexLast.nHeight - interval))

\* nHeightFirst: the int64_t difference stored in an int
HeightFirst(pindexLast, interval) ==
    Int32(Int64(pindexLast.nHeight - Int64(interval - 1)))

\* GetNextWorkRequired for the tip ch[Len(ch)] and a candidate header with
\* time nTime; path "assert" is a failed assertion
GetNextWorkRequired(ch, nTime, p) ==
    LET tip == Len(ch)
        pindexLast == ch[tip]
        nProofOfWorkLimit == GetCompact(UintToArith256(p.powLimit))
        interval == DifficultyAdjustmentInterval(p)
    IN  IF NotAtInterval(pindexLast, interval)
        THEN IF p.fPowAllowMinDifficultyBlocks
             THEN IF MinDifficultyGap(nTime, pindexLast, p)
                  THEN Result(tip, "mindiff", nProofOfWorkLimit, 0, 0)
                  ELSE LET w == WalkBack(ch, tip, nProofOfWorkLimit, interval, 0)
                       IN  Result(tip, "walk", ch[w.index].nBits, w.steps, 0)
             ELSE Result(tip, "reuse", pindexLast.nBits, 0, 0)
        ELSE LET nHeightFirst == HeightFirst(pindexLast, interval)
                 pindexFirst == GetAncestor(ch, tip, nHeightFirst)
             IN  IF nHeightFirst < 0 \/ pindexFirst = 0
                 THEN Result(tip, "assert", Compact(0, 0), 0, 0)
                 ELSE Result(tip, "retarget",
                             CalculateNextWorkRequired(pindexLast, ch[pindexFirst].nTime, p),
                             0, pindexFirst)

\* ------------------------------------------------------------------------
\* CheckProofOfWork
\* ------------------------------------------------------------------------

\* the hash test with >= for >
MutCheckStrict(hash, nBits, p) ==
    LET d == SetCompact(nBits)
    IN  ~(\/ d.fNegative \/ d.target = Zero256 \/ d.fOverflow
          \/ Gt(d.target, UintToArith256(p.powLimit))
          \/ ~Gt(d.target, UintToArith256(hash)))

CheckProofOfWork(hash, nBits, p) ==
    LET d == SetCompact(nBits)
        bnTarget == d.target
    IN  IF \/ d.fNegative
           \/ bnTarget = Zero256
           \/ d.fOverflow
           \/ Gt(bnTarget, UintToArith256(p.powLimit))
        THEN FALSE
        ELSE IF Gt(UintToArith256(hash), bnTarget) THEN FALSE
        ELSE TRUE

\* ------------------------------------------------------------------------
\* Parameter sets and inputs
\* ------------------------------------------------------------------------

\* most blocks on a chain, the genesis block included
MaxBlocks == 5

\* largest DifficultyAdjustmentInterval of the chains explored
MaxInterval == 4

\* 00000000ffffffff...ff, 7fffffff...ff and 0xffff
PowLimitMain == [i \in 1..WIDTH |-> IF i <= WIDTH - 4 THEN 255 ELSE 0]
PowLimitRegtest == [i \in 1..WIDTH |-> IF i < WIDTH THEN 255 ELSE 127]
PowLimitSmall == FromInt(65535)

MakeParams(limit, timespan, spacing, allowMin, noRetarget) ==
    [powLimit |-> limit, nPowTargetTimespan |-> timespan, nPowTargetSpacing |-> spacing,
     fPowAllowMinDifficultyBlocks |-> allowMin, fPowNoRetargeting |-> noRetarget]

Block(h, t, bits) == [nHeight |-> h, nTime |-> t, nBits |-> bits]

NoCall == [op |-> "none"]

\* a + 1 and a - 1 modulo 2^256
RECURSIVE AddOne(_, _)
AddOne(a, i) ==
    IF i > Len(a) THEN a
    ELSE IF a[i] = 255 THEN AddOne([a EXCEPT ![i] = 0], i + 1)
    ELSE [a EXCEPT ![i] = a[i] + 1]

RECURSIVE SubOne(_, _)
SubOne(a, i) ==
    IF i > Len(a) THEN a
    ELSE IF a[i] = 0 THEN SubOne([a EXCEPT ![i] = 255], i + 1)
    ELSE [a EXCEPT ![i] = a[i] - 1]

\* chains: spacing 4, timespan 4 * interval
ChainParams ==
    { MakeParams(l, 4 * n, 4, m, r) :
        l \in {PowLimitMain, PowLimitRegtest}, n \in 1..MaxInterval,
        m \in BOOLEAN, r \in BOOLEAN }

GenesisBits(p) ==
    { GetCompact(UintToArith256(p.powLimit)), Compact(27, 263371), Compact(1, 196608) }

TimeSteps == {-2, 1, 9, 70}

\* compact values: the three limits, ordinary targets, the targets 3 and 1,
\* a value not in normal form, a negative one, overflowing ones, zero
SomeBits ==
    { Compact(29, 65535), Compact(32, 8388607), Compact(3, 65535),
      Compact(27, 263371), Compact(28, 8323072), Compact(1, 196608), Compact(1, 65536),
      Compact(4, 18), Compact(4, 9582678), Compact(35, 1), Compact(33, 65536),
      Compact(34, 255), Compact(33, 65535), Compact(255, 0), Compact(0, 0) }

CalcParams ==
    { MakeParams(l, ts[1], ts[2], FALSE, r) :
        l \in {PowLimitMain, PowLimitRegtest, PowLimitSmall},
        ts \in {<<8, 4>>, <<16, 4>>, <<1209600, 600>>}, r \in BOOLEAN }

LastTimes == {0, 100}
FirstTimes == {-5000000, -604700, -110000, -20, 0, 3, 91, 97, 100, 110}

CheckParams ==
    { MakeParams(l, 1209600, 600, FALSE, FALSE) :
        l \in {PowLimitMain, PowLimitRegtest, PowLimitSmall} }

Hashes(nBits, p) ==
    LET t == SetCompact(nBits).target
    IN  { t, AddOne(t, 1), SubOne(t, 1), Zero256, p.powLimit, AddOne(p.powLimit, 1) }

\* ------------------------------------------------------------------------
\* State
\* ------------------------------------------------------------------------

\* params: the consensus parameters; chain: the block index, block i at
\* height i - 1; input: the arguments of the last call; last: its outcome
VARIABLES params, chain, input, last

vars == <<params, chain, input, last>>

\* --- a chain growing by blocks that carry the required bits ---

Init ==
    /\ params \in ChainParams
    /\ \E bits \in GenesisBits(params) : chain = <<Block(0, 1000, bits)>>
    /\ input = 0
    /\ last = NoCall

Aborted == last.op = "next" /\ last.path = "assert"

\* a candidate header with time nTime on the tip: its required bits are
\* computed and the block joins the chain; a failed assertion ends the run
AddBlock(nTime) ==
    /\ ~Aborted
    /\ Len(chain) < MaxBlocks
    /\ LET r == GetNextWorkRequired(chain, nTime, params)
       IN  /\ last' = r
           /\ input' = nTime
           /\ chain' = IF r.path = "assert" THEN chain
                       ELSE Append(chain, Block(Len(chain), nTime, r.nBits))
    /\ UNCHANGED params

Next == \E d \in TimeSteps : AddBlock(chain[Len(chain)].nTime + d)

Spec == Init /\ [][Next]_vars

\* --- CalculateNextWorkRequired on drawn inputs ---

InitCalc ==
    /\ params \in CalcParams
    /\ chain = << >>
    /\ input \in [nBits : SomeBits, nFirstBlockTime : FirstTimes, nTime : LastTimes]
    /\ last = NoCall

Calculate ==
    /\ last = NoCall
    /\ last' = [op |-> "calc",
                nBits |-> CalculateNextWorkRequired(Block(0, input.nTime, input.nBits),
                                                    input.nFirstBlockTime, params)]
    /\ UNCHANGED <<params, chain, input>>

NextCalc == Calculate

SpecCalc == InitCalc /\ [][NextCalc]_vars

\* --- CheckProofOfWork on drawn inputs ---

InitCheck ==
    /\ params \in CheckParams
    /\ chain = << >>
    /\ \E b \in SomeBits : \E h \in Hashes(b, params) : input = [hash |-> h, nBits |-> b]
    /\ last = NoCall

Check ==
    /\ last = NoCall
    /\ last' = [op |-> "check",
                result |-> CheckProofOfWork(input.hash, input.nBits, params)]
    /\ UNCHANGED <<params, chain, input>>

NextCheck == Check

SpecCheck == InitCheck /\ [][NextCheck]_vars

\* ------------------------------------------------------------------------
\* Properties
\* ------------------------------------------------------------------------

\* a <= b as unsigned numbers of the same width: equal, or smaller at the
\* most significant byte where they differ
Leq(a, b) ==
    \/ a = b
    \/ \E i \in DOMAIN a : a[i] < b[i] /\ \A j \in DOMAIN a : j > i => a[j] = b[j]

\* a value with four more high bytes, and the low WIDTH bytes of it
Widen(a) == a \o <<0, 0, 0, 0>>
Narrow(a) == SubSeq(a, 1, WIDTH)

Decode(nBits) == SetCompact(nBits).target

\* the timespan of a call clamped, as the larger of timespan/4 and the
\* smaller of timespan*4 and the difference
Clamped(span, p) ==
    LET hi == IF span < p.nPowTargetTimespan * 4 THEN span ELSE p.nPowTargetTimespan * 4
    IN  IF hi > p.nPowTargetTimespan \div 4 THEN hi ELSE p.nPowTargetTimespan \div 4

\* floor(old * c / timespan) with the product taken in 288 bits, where it
\* cannot wrap
ExactNew(nBits, span, p) ==
    DivSmall(MulSmall(Widen(Decode(nBits)), Clamped(span, p)), p.nPowTargetTimespan)

Span == input.nTime - input.nFirstBlockTime

Called == last.op = "next"
Tip == chain[last.tip]
Interval == DifficultyAdjustmentInterval(params)
LimitBits == GetCompact(params.powLimit)
AtInterval == (Tip.nHeight + 1) % Interval = 0
Late == input > Tip.nTime + 2 * params.nPowTargetSpacing

\* C1: CheckProofOfWork returns true exactly when the decoded nBits is not
\* negative, does not overflow, is not zero, is at most powLimit and the hash
\* is at most the target; a hash equal to the target is accepted
C1_CheckIff ==
    last.op = "check" =>
        LET d == SetCompact(input.nBits)
        IN  last.result = (/\ ~d.fNegative
                           /\ ~d.fOverflow
                           /\ d.target # Zero256
                           /\ Leq(d.target, params.powLimit)
                           /\ Leq(input.hash, d.target))

C1_Witness ==
    /\ last.op = "check"
    /\ last.result
    /\ input.hash = Decode(input.nBits)
    /\ input.hash # params.powLimit

\* C2 as stated: the result of CalculateNextWorkRequired decodes to at most
\* powLimit for every previous compact value and every parameter set
C2_Original ==
    last.op = "calc" => Leq(Decode(last.nBits), params.powLimit)

\* C2 amended: the result decodes to at most powLimit when fPowNoRetargeting
\* is false, or when the previous bits decode to at most powLimit
C2_CapHolds ==
    (last.op = "calc"
        /\ (~params.fPowNoRetargeting \/ Leq(Decode(input.nBits), params.powLimit)))
    => Leq(Decode(last.nBits), params.powLimit)

C2_Witness ==
    /\ last.op = "calc"
    /\ ~params.fPowNoRetargeting
    /\ ~Leq(ExactNew(input.nBits, Span, params), Widen(params.powLimit))
    /\ last.nBits = LimitBits

\* C3 as stated: with fPowAllowMinDifficultyBlocks a candidate more than twice
\* the spacing after the tip gets the bits of powLimit at every height
C3_Original ==
    (Called /\ params.fPowAllowMinDifficultyBlocks /\ Late) => last.nBits = LimitBits

\* C3 amended: with fPowAllowMinDifficultyBlocks a candidate more than twice
\* the spacing after the tip gets the bits of powLimit at every height that
\* is not an interval start, (tip height + 1) % interval # 0
C3_MinDifficulty ==
    (Called /\ params.fPowAllowMinDifficultyBlocks /\ Late /\ ~AtInterval)
    => last.nBits = LimitBits

C3_Witness ==
    /\ Called /\ params.fPowAllowMinDifficultyBlocks /\ Late /\ ~AtInterval
    /\ last.nBits = LimitBits
    /\ Tip.nBits # LimitBits
    /\ input <= Tip.nTime + 2 * params.nPowTargetTimespan

\* C4: the retarget is computed exactly when (tip height + 1) % interval = 0,
\* from the tip's bits and time and the time of the ancestor at height
\* tip height - (interval - 1); at any other height without
\* fPowAllowMinDifficultyBlocks the tip's bits are returned
C4_RetargetExactlyAtInterval ==
    Called =>
        /\ (last.path = "retarget") = AtInterval
        /\ AtInterval =>
              /\ last.first = Tip.nHeight - (Interval - 1) + 1
              /\ last.nBits = CalculateNextWorkRequired(Tip, chain[last.first].nTime, params)
        /\ (~AtInterval /\ ~params.fPowAllowMinDifficultyBlocks) =>
              (last.path = "reuse" /\ last.nBits = Tip.nBits)

C4_Witness ==
    /\ Called /\ AtInterval /\ last.path = "retarget"
    /\ Interval > 1
    /\ last.nBits # Tip.nBits
    /\ chain[last.first].nTime # Tip.nTime

\* C5: every block of the chain carries bits that decode to a target greater
\* than zero and at most powLimit
C5_TargetsInRange ==
    \A i \in 1..Len(chain) :
        Decode(chain[i].nBits) # Zero256 /\ Leq(Decode(chain[i].nBits), params.powLimit)

\* C6: without fPowNoRetargeting, a smaller clamped timespan gives a target
\* that is smaller than or equal to the one a larger clamped timespan gives
C6_Monotone ==
    (last.op = "calc" /\ ~params.fPowNoRetargeting) =>
        \A f \in FirstTimes :
            Clamped(Span, params) < Clamped(input.nTime - f, params) =>
                Leq(Decode(last.nBits),
                    Decode(CalculateNextWorkRequired(
                               Block(0, input.nTime, input.nBits), f, params)))

FixedPoint(nBits) ==
    LET d == SetCompact(nBits)
    IN  ~d.fNegative /\ ~d.fOverflow /\ GetCompact(d.target) = nBits

\* C7 as stated: every result of CalculateNextWorkRequired decodes without
\* the negative and overflow flags and encodes back to itself
C7_Original == last.op = "calc" => FixedPoint(last.nBits)

\* C7 amended: the result decodes without the negative and overflow flags and
\* encodes back to itself when fPowNoRetargeting is false, or when the
\* previous bits, which are returned as they are, already do
C7_FixedPoint ==
    (last.op = "calc" /\ (~params.fPowNoRetargeting \/ FixedPoint(input.nBits)))
    => FixedPoint(last.nBits)

C7_Witness ==
    /\ last.op = "calc" /\ ~params.fPowNoRetargeting
    /\ ~FixedPoint(input.nBits)
    /\ last.nBits # LimitBits
    /\ last.nBits.mant # 0
    /\ Decode(last.nBits) # ExactNew(input.nBits, Span, params)

\* C8: without fPowNoRetargeting and for a previous target in (0, powLimit]
\* the result is the encoding of min(powLimit, floor(old * c / timespan))
\* with the product taken exactly
C8_ExactProduct ==
    (/\ last.op = "calc" /\ ~params.fPowNoRetargeting
     /\ Decode(input.nBits) # Zero256
     /\ Leq(Decode(input.nBits), params.powLimit))
    => LET new == ExactNew(input.nBits, Span, params)
       IN  last.nBits = GetCompact(IF Leq(new, Widen(params.powLimit))
                                   THEN Narrow(new) ELSE params.powLimit)

\* the nearest block at or before the tip that is at an interval start or
\* has other bits than the limit
NearestStop ==
    CHOOSE j \in 1..last.tip :
        /\ chain[j].nHeight % Interval = 0 \/ chain[j].nBits # LimitBits
        /\ \A k \in (j + 1)..last.tip :
               chain[k].nHeight % Interval # 0 /\ chain[k].nBits = LimitBits

\* C9: away from an interval start, with fPowAllowMinDifficultyBlocks and a
\* candidate at most twice the spacing after the tip, the result is the bits
\* of the nearest block back from the tip that is at a multiple of the
\* interval or has other bits than the limit, found in fewer than interval
\* steps to the parent
C9_WalkBack ==
    Called =>
        /\ (last.path = "walk")
               = (~AtInterval /\ params.fPowAllowMinDifficultyBlocks /\ ~Late)
        /\ last.path = "walk" =>
               /\ last.nBits = chain[NearestStop].nBits
               /\ last.steps = last.tip - NearestStop
               /\ last.steps < Interval

C9_Witness ==
    /\ Called /\ last.path = "walk"
    /\ last.steps >= 2
    /\ last.nBits # LimitBits

\* C10: on a chain with heights 0, 1, 2, ... the assertions never fail: at an
\* interval start the height of the first block is not negative and the
\* ancestor at that height exists
C10_NoAssert ==
    /\ Called => last.path # "assert"
    /\ \A i \in 1..Len(chain) : chain[i].nHeight = i - 1
    /\ LET pindexLast == chain[Len(chain)]
       IN  ~NotAtInterval(pindexLast, Interval) =>
               /\ HeightFirst(pindexLast, Interval) >= 0
               /\ GetAncestor(chain, Len(chain), HeightFirst(pindexLast, Interval)) # 0

C10_Witness ==
    /\ Called /\ last.path = "retarget"
    /\ Interval > 1
    /\ Tip.nHeight = Interval - 1
    /\ last.first = 1

====
